---- MODULE Spec2Model ----
(***************************************************************************)
(* The batch scheduler of the data ingestion API                           *)
(* (src/services/batchProcessor.js, class BatchProcessor): a priority      *)
(* queue of batches, a timer-driven rate-limited loop that executes one    *)
(* batch at a time, and the status derived from the batches.               *)
(*                                                                         *)
(* Time is Date.now() in milliseconds.  One action is one turn of the      *)
(* JavaScript event loop: a call from outside, a timer firing, or the      *)
(* resolution of a simulated API call, each run up to its next await.      *)
(***************************************************************************)
EXTENDS Integers, Sequences, FiniteSets, TLC

\* ------------------------------------------------------------------ bounds
MaxIngestions == 2      \* createIngestion calls in one run
MaxIds == 4             \* longest id list submitted in one run
MaxSeconds == 7         \* the clock stops after this many seconds
MaxStops == 1           \* stop() calls in one run
MaxDirectCalls == 1     \* ingestions created by direct calls of createIngestion
MaxBodyIds == 2         \* elements of ids in a request body put to validation
TimelineSeconds == 18   \* seconds the example timeline is followed after Request 1
MaxPosts == 1002        \* successful POST /ingest calls on the key-value store
MaxQueried == 103       \* records in the key-value store when GET /data is tried

\* ------------------------------------------------------- program constants
RATE_LIMIT_INTERVAL == 5000
MAX_BATCH_SIZE == 3
IDLE_RECHECK == 1000
DELAY_BASE == 100
Null == -1
MAX_ID == 1000000007
Request2At == 4000
STORE_LIMIT == 1000
PAGE_DEFAULT == 10
PAGE_MAX == 100

PRIORITY_LEVELS == [HIGH |-> 3, MEDIUM |-> 2, LOW |-> 1]

\* A name every object inherits from Object.prototype: PRIORITY_LEVELS[name]
\* is a function for it, not undefined.
InheritedKeys == {"constructor"}

\* The priority arguments tried on createIngestion called directly.
\* "undefined" stands for the omitted argument, "null" for null.
PriorityArgs == DOMAIN PRIORITY_LEVELS \cup InheritedKeys \cup {"URGENT", "null", "undefined"}

\* The delay tried for one simulated API call, of Math.random() * 400 + 100.
Delays == {DELAY_BASE}

\* The outside world is observed at least once per second.
TimeStep == IDLE_RECHECK
MaxTime == MaxSeconds * 1000

VARIABLES
  now,                \* Date.now()
  batchQueue,         \* this.batchQueue: sequence of batch ids
  ingestions,         \* this.ingestions: ingestion id (index) -> ingestion
  batches,            \* this.batches: batch id (index) -> batch
  isProcessing,       \* this.isProcessing
  lastProcessTime,    \* this.lastProcessTime
  processingTimeout,  \* this.processingTimeout: Null, or the timer it refers to
  timers,             \* pending scheduler timers no field refers to (deadlines, ascending)
  running,            \* processBatch calls suspended at an await
  lastCall,           \* the last call logged from outside and how it ended
  stopCalls,          \* stop() calls so far
  ingestedData,       \* the key-value ingestion routes: let ingestedData
  dataCounter         \* the key-value ingestion routes: let dataCounter

vars == <<now, batchQueue, ingestions, batches, isProcessing, lastProcessTime,
          processingTimeout, timers, running, lastCall, stopCalls, ingestedData, dataCounter>>

\* ----------------------------------------------------------------- helpers
Min(S) == CHOOSE x \in S : \A y \in S : x <= y

Range(s) == {s[i] : i \in 1..Len(s)}

\* The value of this.processingTimeout: null, the handle of a pending timer
\* with its deadline, or the handle of a timer that has fired already.
NoTimer == [state |-> "null", at |-> Null]

Timer(at) == [state |-> "pending", at |-> at]

FiredTimer == [state |-> "fired", at |-> Null]

\* A deadline put into an ascending list of deadlines.
RECURSIVE InsertTime(_, _)
InsertTime(ts, t) ==
  IF ts = <<>> THEN <<t>>
  ELSE IF t <= Head(ts) THEN <<t>> \o ts
  ELSE <<Head(ts)>> \o InsertTime(Tail(ts), t)

RemoveAt(s, k) == SubSeq(s, 1, k - 1) \o SubSeq(s, k + 1, Len(s))

\* ------------------------------------------------------------ priority queue
\* PRIORITY_LEVELS[priority] as JavaScript evaluates it.
Lookup(priority) ==
  IF priority \in DOMAIN PRIORITY_LEVELS
    THEN [kind |-> "number", n |-> PRIORITY_LEVELS[priority]]
    ELSE IF priority \in InheritedKeys
      THEN [kind |-> "function", n |-> 0]
      ELSE [kind |-> "undefined", n |-> 0]

\* !this.PRIORITY_LEVELS[priority]
Falsy(v) == v.kind = "undefined" \/ (v.kind = "number" /\ v.n = 0)

\* Mutant of Compare: equal priorities are ordered newest first.
Compare_NewestFirst(a, b) ==
  LET pa == PRIORITY_LEVELS[a.priority]
      pb == PRIORITY_LEVELS[b.priority]
  IN  IF pb - pa # 0 THEN pb - pa ELSE b.created_at - a.created_at

\* The comparator of addBatchToQueue.  A difference with a non-number is NaN:
\* NaN !== 0, so NaN is returned, and sort reads NaN as 0.
Compare(a, b) ==
  LET pa == Lookup(a.priority)
      pb == Lookup(b.priority)
  IN  IF pa.kind # "number" \/ pb.kind # "number" THEN 0
      ELSE IF pb.n - pa.n # 0 THEN pb.n - pa.n
      ELSE a.created_at - b.created_at

\* Mutant of InsertSorted: an unstable sort, an element goes before its equals.
RECURSIVE InsertSorted_BeforeEquals(_, _, _)
InsertSorted_BeforeEquals(bs, q, x) ==
  IF q # <<>> /\ Compare(bs[q[Len(q)]], bs[x]) >= 0
    THEN Append(InsertSorted_BeforeEquals(bs, SubSeq(q, 1, Len(q) - 1), x), q[Len(q)])
    ELSE Append(q, x)

\* Array.prototype.sort, stable: insertion of each element after the last one
\* it is not smaller than.
RECURSIVE InsertSorted(_, _, _)
InsertSorted(bs, q, x) ==
  IF q # <<>> /\ Compare(bs[q[Len(q)]], bs[x]) > 0
    THEN Append(InsertSorted(bs, SubSeq(q, 1, Len(q) - 1), x), q[Len(q)])
    ELSE Append(q, x)

RECURSIVE SortQueue(_, _)
SortQueue(bs, q) ==
  IF q = <<>> THEN <<>>
  ELSE InsertSorted(bs, SortQueue(bs, SubSeq(q, 1, Len(q) - 1)), q[Len(q)])

\* Mutant of addBatchToQueue: the push without the sort.
addBatchToQueue_NoSort(bs, q, id) == Append(q, id)

\* addBatchToQueue(batch): push, then sort the whole queue.
addBatchToQueue(bs, q, id) == SortQueue(bs, Append(q, id))

\* ---------------------------------------------------------- createIngestion
\* Mutant of Slice: a last slice shorter than MAX_BATCH_SIZE comes out empty.
Slice_DropsTail(ids, i) ==
  SubSeq(ids, i + 1, IF i + MAX_BATCH_SIZE <= Len(ids) THEN i + MAX_BATCH_SIZE ELSE i)

\* ids.slice(i, i + MAX_BATCH_SIZE), i counted from 0.
Slice(ids, i) ==
  SubSeq(ids, i + 1, IF i + MAX_BATCH_SIZE < Len(ids) THEN i + MAX_BATCH_SIZE ELSE Len(ids))

\* Mutant of NewBatch: the batch is born triggered.
NewBatch_Triggered(ingestionId, batchIds, priority, createdAt) ==
  [ingestion_id |-> ingestionId, ids |-> batchIds, status |-> "triggered",
   priority |-> priority, created_at |-> createdAt, started_at |-> Null,
   completed_at |-> Null, results |-> <<>>, error |-> ""]

NewBatch(ingestionId, batchIds, priority, createdAt) ==
  [ingestion_id |-> ingestionId, ids |-> batchIds, status |-> "yet_to_start",
   priority |-> priority, created_at |-> createdAt, started_at |-> Null,
   completed_at |-> Null, results |-> <<>>, error |-> ""]

\* The for loop of createIngestion from index i on: st holds this.batches,
\* this.batchQueue and the local list batches (as batch ids).
RECURSIVE SplitLoop(_, _, _, _, _)
SplitLoop(st, ids, i, ingestionId, priority) ==
  IF i >= Len(ids) THEN st
  ELSE LET batchId == Len(st.batches) + 1
           bs == Append(st.batches, NewBatch(ingestionId, Slice(ids, i), priority, now))
       IN  SplitLoop([batches |-> bs,
                      queue |-> addBatchToQueue(bs, st.queue, batchId),
                      batch_ids |-> Append(st.batch_ids, batchId)],
                     ids, i + MAX_BATCH_SIZE, ingestionId, priority)

\* The default of the parameter priority = 'MEDIUM'.
DefaultPriority(arg) == IF arg = "undefined" THEN "MEDIUM" ELSE arg

\* createIngestion from the split on, the priority being accepted.
StoreIngestion(ids, priority) ==
  LET ingestionId == Len(ingestions) + 1
      st == SplitLoop([batches |-> batches, queue |-> batchQueue, batch_ids |-> <<>>],
                      ids, 0, ingestionId, priority)
  IN  /\ batches' = st.batches
      /\ batchQueue' = st.queue
      /\ ingestions' = Append(ingestions,
             [original_ids |-> ids, priority |-> priority, created_at |-> now,
              batch_ids |-> st.batch_ids, status |-> "yet_to_start"])

\* createIngestion(ids, priority = 'MEDIUM')
createIngestion(ids, arg) ==
  LET priority == DefaultPriority(arg)
  IN  IF Falsy(Lookup(priority))
        THEN /\ lastCall' = [op |-> "createIngestion", priority |-> arg, ok |-> FALSE]
             /\ UNCHANGED <<batchQueue, ingestions, batches>>
        ELSE /\ StoreIngestion(ids, priority)
             /\ lastCall' = [op |-> "createIngestion", priority |-> arg, ok |-> TRUE]

\* -------------------------------------------------------- getIngestionStatus
\* Mutant of overallStatus: some() where the code has every().
overallStatus_Some(batchStatuses) ==
  IF \E k \in 1..Len(batchStatuses) : batchStatuses[k] = "yet_to_start" THEN "yet_to_start"
  ELSE IF \E k \in 1..Len(batchStatuses) : batchStatuses[k] = "completed" THEN "completed"
  ELSE "triggered"

\* Mutant of overallStatus: triggered only while a batch is triggered.
overallStatus_WhileTriggered(batchStatuses) ==
  IF \E k \in 1..Len(batchStatuses) : batchStatuses[k] = "triggered" THEN "triggered"
  ELSE IF batchStatuses # <<>> /\ \A k \in 1..Len(batchStatuses) : batchStatuses[k] = "completed"
    THEN "completed"
  ELSE "yet_to_start"

overallStatus(batchStatuses) ==
  IF \A k \in 1..Len(batchStatuses) : batchStatuses[k] = "yet_to_start" THEN "yet_to_start"
  ELSE IF \A k \in 1..Len(batchStatuses) : batchStatuses[k] = "completed" THEN "completed"
  ELSE "triggered"

\* Mutant of getIngestionStatus: batches that have completed are not listed.
getIngestionStatus_HidesCompleted(ingestionId) ==
  IF ingestionId \notin 1..Len(ingestions) THEN [found |-> FALSE]
  ELSE LET ingestion == ingestions[ingestionId]
           Open(b) == batches[b].status # "completed"
           open == SelectSeq(ingestion.batch_ids, Open)
           bl == [k \in 1..Len(open) |->
                    [batch_id |-> open[k],
                     ids |-> batches[open[k]].ids,
                     ingestion_id |-> ingestionId,
                     status |-> batches[open[k]].status]]
       IN  [found |-> TRUE, ingestion_id |-> ingestionId,
            status |-> overallStatus([k \in 1..Len(bl) |-> bl[k].status]),
            batches |-> bl]

\* getIngestionStatus(ingestionId); the value for an unknown id is [found |-> FALSE].
getIngestionStatus(ingestionId) ==
  IF ingestionId \notin 1..Len(ingestions) THEN [found |-> FALSE]
  ELSE LET ingestion == ingestions[ingestionId]
           bl == [k \in 1..Len(ingestion.batch_ids) |->
                    [batch_id |-> ingestion.batch_ids[k],
                     ids |-> batches[ingestion.batch_ids[k]].ids,
                     ingestion_id |-> ingestionId,
                     status |-> batches[ingestion.batch_ids[k]].status]]
       IN  [found |-> TRUE, ingestion_id |-> ingestionId,
            status |-> overallStatus([k \in 1..Len(bl) |-> bl[k].status]),
            batches |-> bl]

getQueueSize == Len(batchQueue)

getActiveBatches == Cardinality({b \in 1..Len(batches) : batches[b].status = "triggered"})

\* ------------------------------------------------------------- the scheduler
\* Mutant of processBatchBegin: the batch is not marked triggered.
processBatchBegin_NoStatus(batch, d) ==
  /\ batches' = [batches EXCEPT ![batch].started_at = now]
  /\ running' = running \cup {[batch |-> batch, results |-> <<>>, at |-> now + d]}

\* processBatch(batch) up to its first await: the batch is triggered and the
\* simulated API call of its first id is under way for d milliseconds.
processBatchBegin(batch, d) ==
  /\ batches' = [batches EXCEPT ![batch].status = "triggered", ![batch].started_at = now]
  /\ running' = running \cup {[batch |-> batch, results |-> <<>>, at |-> now + d]}

\* Mutant of processNextBatch: the head of the queue is read, not shifted.
processNextBatch_NoShift(active, handle) ==
  IF ~active
    THEN /\ processingTimeout' = handle
         /\ UNCHANGED <<batchQueue, batches, running>>
    ELSE IF now - lastProcessTime < RATE_LIMIT_INTERVAL /\ lastProcessTime > 0
      THEN /\ processingTimeout' = Timer(now + (RATE_LIMIT_INTERVAL - (now - lastProcessTime)))
           /\ UNCHANGED <<batchQueue, batches, running>>
      ELSE IF batchQueue = <<>>
        THEN /\ processingTimeout' = Timer(now + IDLE_RECHECK)
             /\ UNCHANGED <<batchQueue, batches, running>>
        ELSE /\ processingTimeout' = NoTimer
             /\ batchQueue' = batchQueue
             /\ \E d \in Delays : processBatchBegin(Head(batchQueue), d)

\* Mutant of processNextBatch: no return when the scheduler is stopped.
processNextBatch_NoRunningCheck(active, handle) ==
  IF now - lastProcessTime < RATE_LIMIT_INTERVAL /\ lastProcessTime > 0
    THEN /\ processingTimeout' = Timer(now + (RATE_LIMIT_INTERVAL - (now - lastProcessTime)))
         /\ UNCHANGED <<batchQueue, batches, running>>
    ELSE IF batchQueue = <<>>
      THEN /\ processingTimeout' = Timer(now + IDLE_RECHECK)
           /\ UNCHANGED <<batchQueue, batches, running>>
      ELSE /\ processingTimeout' = NoTimer
           /\ batchQueue' = Tail(batchQueue)
           /\ \E d \in Delays : processBatchBegin(Head(batchQueue), d)

\* Mutant of processNextBatch: an empty queue is looked at again after twice
\* the time.
processNextBatch_SlowIdle(active, handle) ==
  IF ~active
    THEN /\ processingTimeout' = handle
         /\ UNCHANGED <<batchQueue, batches, running>>
    ELSE IF now - lastProcessTime < RATE_LIMIT_INTERVAL /\ lastProcessTime > 0
      THEN /\ processingTimeout' = Timer(now + (RATE_LIMIT_INTERVAL - (now - lastProcessTime)))
           /\ UNCHANGED <<batchQueue, batches, running>>
      ELSE IF batchQueue = <<>>
        THEN /\ processingTimeout' = Timer(now + 2 * IDLE_RECHECK)
             /\ UNCHANGED <<batchQueue, batches, running>>
        ELSE /\ processingTimeout' = NoTimer
             /\ batchQueue' = Tail(batchQueue)
             /\ \E d \in Delays : processBatchBegin(Head(batchQueue), d)

\* processNextBatch() up to its first await or return.  handle is
\* this.processingTimeout and active is this.isProcessing when it is called.
processNextBatch(active, handle) ==
  IF ~active
    THEN /\ processingTimeout' = handle
         /\ UNCHANGED <<batchQueue, batches, running>>
    ELSE LET timeSinceLastProcess == now - lastProcessTime
         IN  IF timeSinceLastProcess < RATE_LIMIT_INTERVAL /\ lastProcessTime > 0
               THEN /\ processingTimeout' = Timer(now + (RATE_LIMIT_INTERVAL - timeSinceLastProcess))
                    /\ UNCHANGED <<batchQueue, batches, running>>
               ELSE IF batchQueue = <<>>
                 THEN /\ processingTimeout' = Timer(now + IDLE_RECHECK)
                      /\ UNCHANGED <<batchQueue, batches, running>>
                 ELSE /\ processingTimeout' = NoTimer
                      /\ batchQueue' = Tail(batchQueue)
                      /\ \E d \in Delays : processBatchBegin(Head(batchQueue), d)

\* Mutant of AfterProcessBatch: no tick is armed after the execution.
AfterProcessBatch_NoTick ==
  /\ lastProcessTime' = now
  /\ processingTimeout' = NoTimer
  /\ timers' = IF processingTimeout.state = "pending"
                 THEN InsertTime(timers, processingTimeout.at)
                 ELSE timers

\* Mutant of AfterProcessBatch: lastProcessTime is not set.
AfterProcessBatch_NoStamp ==
  /\ lastProcessTime' = lastProcessTime
  /\ processingTimeout' = Timer(now + RATE_LIMIT_INTERVAL)
  /\ timers' = IF processingTimeout.state = "pending"
                 THEN InsertTime(timers, processingTimeout.at)
                 ELSE timers

\* What follows `await this.processBatch(batch)` in processNextBatch: the
\* handle of a timer still pending is overwritten, not cleared.
AfterProcessBatch ==
  /\ lastProcessTime' = now
  /\ processingTimeout' = Timer(now + RATE_LIMIT_INTERVAL)
  /\ timers' = IF processingTimeout.state = "pending"
                 THEN InsertTime(timers, processingTimeout.at)
                 ELSE timers

\* Mutant of startCall: processNextBatch() runs on a running scheduler too.
startCall_NoGuard ==
  /\ isProcessing' = TRUE
  /\ processNextBatch(TRUE, processingTimeout)

\* Mutant of startCall: processNextBatch() is not called.
startCall_NoTick ==
  /\ isProcessing' = TRUE
  /\ UNCHANGED <<processingTimeout, batchQueue, batches, running>>

\* The body of start().
startCall ==
  IF isProcessing
    THEN UNCHANGED <<isProcessing, processingTimeout, batchQueue, batches, running>>
    ELSE /\ isProcessing' = TRUE
         /\ processNextBatch(TRUE, processingTimeout)

\* start()
start ==
  /\ startCall
  /\ UNCHANGED <<ingestedData, dataCounter, now, ingestions, lastProcessTime, timers, lastCall, stopCalls>>

\* The body of stop(): clearTimeout of a handle whose timer has fired does nothing.
stopCall ==
  /\ isProcessing' = FALSE
  /\ processingTimeout' = NoTimer

\* stop()
stop ==
  /\ stopCalls < MaxStops
  /\ stopCalls' = stopCalls + 1
  /\ stopCall
  /\ UNCHANGED <<ingestedData, dataCounter, now, batchQueue, ingestions, batches, lastProcessTime, timers, running, lastCall>>

\* The timer this.processingTimeout refers to fires.
TimerFires ==
  /\ processingTimeout.state = "pending"
  /\ processingTimeout.at <= now
  /\ processNextBatch(isProcessing, FiredTimer)
  /\ UNCHANGED <<ingestedData, dataCounter, now, ingestions, isProcessing, lastProcessTime, timers, lastCall, stopCalls>>

\* A pending timer whose handle was overwritten fires.
LostTimerFires ==
  \E k \in 1..Len(timers) :
    /\ timers[k] <= now
    /\ timers' = RemoveAt(timers, k)
    /\ processNextBatch(isProcessing, processingTimeout)
    /\ UNCHANGED <<ingestedData, dataCounter, now, ingestions, isProcessing, lastProcessTime, lastCall, stopCalls>>

\* One result of simulateExternalAPICall(id), without its timestamp.
ApiResult(id) == [id |-> id, data |-> "processed"]

\* Mutant of ApiCallResolves: the call rejects where it resolves.
ApiCallResolves_Rejects ==
  \E r \in running :
    /\ r.at <= now
    /\ batches' = [batches EXCEPT ![r.batch].status = "failed",
                                  ![r.batch].error = "external call failed"]
    /\ running' = running \ {r}
    /\ AfterProcessBatch
    /\ UNCHANGED <<ingestedData, dataCounter, now, batchQueue, ingestions, isProcessing, lastCall, stopCalls>>

\* Mutant of ApiCallResolves: stop() aborts the execution under way.
ApiCallResolves_StoppedAborts ==
  \E r \in running :
    /\ r.at <= now
    /\ isProcessing
    /\ LET ids == batches[r.batch].ids
           results == Append(r.results, ApiResult(ids[Len(r.results) + 1]))
       IN  IF Len(results) < Len(ids)
             THEN /\ \E d \in Delays :
                       running' = (running \ {r}) \cup
                                    {[batch |-> r.batch, results |-> results, at |-> now + d]}
                  /\ UNCHANGED <<batches, lastProcessTime, processingTimeout, timers>>
             ELSE /\ batches' = [batches EXCEPT ![r.batch].results = results,
                                                ![r.batch].status = "completed",
                                                ![r.batch].completed_at = now]
                  /\ running' = running \ {r}
                  /\ AfterProcessBatch
    /\ UNCHANGED <<ingestedData, dataCounter, now, batchQueue, ingestions, isProcessing, lastCall, stopCalls>>

\* Mutant of ApiCallResolves: a result is put before the earlier ones.
ApiCallResolves_NewestFirst ==
  \E r \in running :
    /\ r.at <= now
    /\ LET ids == batches[r.batch].ids
           results == <<ApiResult(ids[Len(r.results) + 1])>> \o r.results
       IN  IF Len(results) < Len(ids)
             THEN /\ \E d \in Delays :
                       running' = (running \ {r}) \cup
                                    {[batch |-> r.batch, results |-> results, at |-> now + d]}
                  /\ UNCHANGED <<batches, lastProcessTime, processingTimeout, timers>>
             ELSE /\ batches' = [batches EXCEPT ![r.batch].results = results,
                                                ![r.batch].status = "completed",
                                                ![r.batch].completed_at = now]
                  /\ running' = running \ {r}
                  /\ AfterProcessBatch
    /\ UNCHANGED <<ingestedData, dataCounter, now, batchQueue, ingestions, isProcessing, lastCall, stopCalls>>

\* The simulated API call of a running batch resolves: the next id of the
\* batch is called, or the batch is completed and the loop goes on.
ApiCallResolves ==
  \E r \in running :
    /\ r.at <= now
    /\ LET ids == batches[r.batch].ids
           results == Append(r.results, ApiResult(ids[Len(r.results) + 1]))
       IN  IF Len(results) < Len(ids)
             THEN /\ \E d \in Delays :
                       running' = (running \ {r}) \cup
                                    {[batch |-> r.batch, results |-> results, at |-> now + d]}
                  /\ UNCHANGED <<batches, lastProcessTime, processingTimeout, timers>>
             ELSE /\ batches' = [batches EXCEPT ![r.batch].results = results,
                                                ![r.batch].status = "completed",
                                                ![r.batch].completed_at = now]
                  /\ running' = running \ {r}
                  /\ AfterProcessBatch
    /\ UNCHANGED <<ingestedData, dataCounter, now, batchQueue, ingestions, isProcessing, lastCall, stopCalls>>

\* Mutant of ApiCallRejects: the error leaves processBatch and ends the loop.
ApiCallRejects_EndsLoop ==
  \E r \in running :
    /\ r.at <= now
    /\ batches' = [batches EXCEPT ![r.batch].status = "failed",
                                  ![r.batch].error = "external call failed"]
    /\ running' = running \ {r}
    /\ UNCHANGED <<lastProcessTime, processingTimeout, timers>>
    /\ UNCHANGED <<ingestedData, dataCounter, now, batchQueue, ingestions, isProcessing, lastCall, stopCalls>>

\* The simulated API call of a running batch rejects: the catch of processBatch.
ApiCallRejects ==
  \E r \in running :
    /\ r.at <= now
    /\ batches' = [batches EXCEPT ![r.batch].status = "failed",
                                  ![r.batch].error = "external call failed"]
    /\ running' = running \ {r}
    /\ AfterProcessBatch
    /\ UNCHANGED <<ingestedData, dataCounter, now, batchQueue, ingestions, isProcessing, lastCall, stopCalls>>

\* ------------------------------------------------------------------- time
Deadlines ==
  {r.at : r \in running} \cup Range(timers) \cup
  (IF processingTimeout.state = "pending" THEN {processingTimeout.at} ELSE {})

\* Time passes up to the next deadline, and no further than the next second.
\* The clock stops at limit, except that a batch under execution there is
\* executed to its end.
Elapse(limit) ==
  /\ \A t \in Deadlines : t > now
  /\ now' = Min(Deadlines \cup {(now \div TimeStep + 1) * TimeStep})
  /\ \/ now' <= limit
     \/ running # {}
  /\ UNCHANGED <<batchQueue, ingestions, batches, isProcessing, lastProcessTime,
                 processingTimeout, timers, running, lastCall, stopCalls,
                 ingestedData, dataCounter>>

\* Idle seconds before the first submission are all alike: a run has its first
\* submission within the first of them.
Advance == Elapse(IF ingestions = <<>> THEN TimeStep ELSE MaxTime)

\* ------------------------------------------------------------ specifications
\* The ids of the n-th submission of a run: n ids, distinct over the run.
IdsOf(n) == [k \in 1..n |-> MaxIds * Len(ingestions) + k]

\* POST /ingest with a valid body: the route hands createIngestion a priority
\* of its own list.
Submit ==
  /\ Len(ingestions) < MaxIngestions
  /\ \E n \in 1..MaxIds, p \in DOMAIN PRIORITY_LEVELS : createIngestion(IdsOf(n), p)
  /\ UNCHANGED <<ingestedData, dataCounter, now, isProcessing, lastProcessTime, processingTimeout, timers, running, stopCalls>>

\* The state the constructor leaves: start() found the queue empty.
Init ==
  /\ now = 0
  /\ batchQueue = <<>>
  /\ ingestions = <<>>
  /\ batches = <<>>
  /\ isProcessing = TRUE
  /\ lastProcessTime = 0
  /\ processingTimeout = Timer(IDLE_RECHECK)
  /\ timers = <<>>
  /\ running = {}
  /\ lastCall = [op |-> "none", priority |-> "", ok |-> TRUE]
  /\ stopCalls = 0
  /\ ingestedData = <<>>
  /\ dataCounter = 0

Next ==
  \/ Submit
  \/ start
  \/ stop
  \/ TimerFires
  \/ LostTimerFires
  \/ ApiCallResolves
  \/ Advance

Spec == Init /\ [][Next]_vars

\* The same program with an external API call that can fail.
NextFault == Next \/ ApiCallRejects

SpecFault == Init /\ [][NextFault]_vars

\* createIngestion called directly, on any id list and any priority argument.
IdValues == {1, 2}

IdLists == UNION {[1..n -> IdValues] : n \in 0..MaxIds}

Call ==
  /\ \E arg \in PriorityArgs :
       /\ Len(ingestions) < MaxDirectCalls \/ Falsy(Lookup(DefaultPriority(arg)))
       /\ \E ids \in IdLists : createIngestion(ids, arg)
  /\ UNCHANGED <<ingestedData, dataCounter, now, isProcessing, lastProcessTime, processingTimeout, timers, running, stopCalls>>

SpecCreate == Init /\ [][Call]_vars

\* ------------------------------------------------------- POST /ingest
\* A JSON value sent as priority is written as a string: "undefined" stands
\* for a body without the key, "null" for null, "" for the empty string.
JsFalsy(v) == v \in {"undefined", "null", ""}

validPriorities == {"HIGH", "MEDIUM", "LOW"}

\* An element of ids: int says whether Number.isInteger holds of it, n is its
\* value (for a fraction or a string, the number it is written with).
ValidId(id) == id.int /\ id.n >= 1 /\ id.n <= MAX_ID

\* The validation loop from index i on (indices as in the code, from 0): the
\* index it returns at, Null when it runs to the end.
RECURSIVE ValidateEach(_, _)
ValidateEach(items, i) ==
  IF i >= Len(items) THEN Null
  ELSE IF ~ValidId(items[i + 1]) THEN i
  ELSE ValidateEach(items, i + 1)

Rejected(error, index) == [code |-> 400, error |-> error, index |-> index, ingestion_id |-> Null]

\* Mutant of validateIngestionRequest: a request without priority is LOW.
validateIngestionRequest_DefaultLow(body) ==
  IF body.ids.kind # "array" THEN Rejected("Invalid ids", Null)
  ELSE IF Len(body.ids.items) = 0 THEN Rejected("Empty ids array", Null)
  ELSE IF ValidateEach(body.ids.items, 0) # Null
    THEN Rejected("Invalid ID", ValidateEach(body.ids.items, 0))
  ELSE LET requestPriority == IF JsFalsy(body.priority) THEN "LOW" ELSE body.priority
       IN  IF requestPriority \notin validPriorities
             THEN Rejected("Invalid priority", Null)
             ELSE [code |-> 0, priority |-> requestPriority]

\* validateIngestionRequest: the response it sends, or code 0 and the priority
\* it puts in the body when it calls next().
validateIngestionRequest(body) ==
  IF body.ids.kind # "array" THEN Rejected("Invalid ids", Null)
  ELSE IF Len(body.ids.items) = 0 THEN Rejected("Empty ids array", Null)
  ELSE IF ValidateEach(body.ids.items, 0) # Null
    THEN Rejected("Invalid ID", ValidateEach(body.ids.items, 0))
  ELSE LET requestPriority == IF JsFalsy(body.priority) THEN "MEDIUM" ELSE body.priority
       IN  IF requestPriority \notin validPriorities
             THEN Rejected("Invalid priority", Null)
             ELSE [code |-> 0, priority |-> requestPriority]

\* router.post('/ingest', validateIngestionRequest, handler) on one body.
PostIngest(body) ==
  LET checked == validateIngestionRequest(body)
      logged(res) == [op |-> "POST /ingest", priority |-> body.priority, ok |-> res.code = 201,
                      request |-> body, response |-> res]
  IN  IF checked.code = 400
        THEN /\ lastCall' = logged(checked)
             /\ UNCHANGED <<batchQueue, ingestions, batches>>
        ELSE IF Falsy(Lookup(checked.priority))
          THEN /\ lastCall' = logged(Rejected("Invalid priority", Null))
               /\ UNCHANGED <<batchQueue, ingestions, batches>>
          ELSE /\ StoreIngestion([k \in 1..Len(body.ids.items) |-> body.ids.items[k].n],
                                 checked.priority)
               /\ lastCall' = logged([code |-> 201, error |-> "", index |-> Null,
                                       ingestion_id |-> Len(ingestions) + 1])

\* The bodies tried on the route: ids missing, not an array, or an array of
\* up to MaxBodyIds elements at and around the limits of the id range.
IdElements ==
  {[int |-> TRUE, n |-> v] : v \in {0, 1, MAX_ID, MAX_ID + 1}} \cup {[int |-> FALSE, n |-> 2]}

PriorityBodies == validPriorities \cup InheritedKeys \cup {"URGENT", "undefined", "null", ""}

IngestBodies ==
  {[ids |-> [kind |-> k, items |-> <<>>], priority |-> p] :
     k \in {"undefined", "string"}, p \in PriorityBodies}
  \cup {[ids |-> [kind |-> "array", items |-> items], priority |-> p] :
          items \in UNION {[1..n -> IdElements] : n \in 0..MaxBodyIds}, p \in PriorityBodies}

IngestRoute ==
  /\ \E body \in IngestBodies :
       /\ Len(ingestions) < MaxDirectCalls \/ validateIngestionRequest(body).code = 400
       /\ PostIngest(body)
  /\ UNCHANGED <<ingestedData, dataCounter, now, isProcessing, lastProcessTime, processingTimeout, timers, running, stopCalls>>

SpecIngest == Init /\ [][IngestRoute]_vars

\* The scheduler with submissions that leave the priority out: through the
\* route, with a body of valid ids, and by createIngestion called with ids only.
ArrayOf(ids) == [kind |-> "array", items |-> [k \in 1..Len(ids) |-> [int |-> TRUE, n |-> ids[k]]]]

SubmitRoute ==
  /\ Len(ingestions) < MaxIngestions
  /\ \E n \in 1..MaxIds, p \in validPriorities \cup {"undefined"} :
       PostIngest([ids |-> ArrayOf(IdsOf(n)), priority |-> p])
  /\ UNCHANGED <<ingestedData, dataCounter, now, isProcessing, lastProcessTime, processingTimeout, timers, running, stopCalls>>

SubmitDefault ==
  /\ Len(ingestions) < MaxIngestions
  /\ \E n \in 1..MaxIds : createIngestion(IdsOf(n), "undefined")
  /\ UNCHANGED <<ingestedData, dataCounter, now, isProcessing, lastProcessTime, processingTimeout, timers, running, stopCalls>>

NextRoute ==
  \/ SubmitRoute
  \/ SubmitDefault
  \/ start
  \/ stop
  \/ TimerFires
  \/ LostTimerFires
  \/ ApiCallResolves
  \/ Advance

SpecRoute == Init /\ [][NextRoute]_vars

\* The example timeline of the README on an empty system: Request 1 at T0,
\* within the first second of the run, and Request 2 Request2At later.
Request1 ==
  /\ ingestions = <<>>
  /\ PostIngest([ids |-> ArrayOf(<<1, 2, 3, 4, 5>>), priority |-> "MEDIUM"])
  /\ UNCHANGED <<ingestedData, dataCounter, now, isProcessing, lastProcessTime, processingTimeout, timers, running, stopCalls>>

Request2 ==
  /\ Len(ingestions) = 1
  /\ now = ingestions[1].created_at + Request2At
  /\ PostIngest([ids |-> ArrayOf(<<6, 7, 8, 9>>), priority |-> "HIGH"])
  /\ UNCHANGED <<ingestedData, dataCounter, now, isProcessing, lastProcessTime, processingTimeout, timers, running, stopCalls>>

TimelineAdvance ==
  /\ Len(ingestions) = 1 => now < ingestions[1].created_at + Request2At
  /\ Elapse(IF ingestions = <<>> THEN TimeStep
            ELSE ingestions[1].created_at + TimelineSeconds * 1000)

NextTimeline ==
  \/ Request1
  \/ Request2
  \/ TimerFires
  \/ ApiCallResolves
  \/ TimelineAdvance

SpecTimeline == Init /\ [][NextTimeline]_vars

\* ------------------------------------------------- the key-value store
\* Mutant of KeepLast: the oldest entries are kept.
KeepLast_KeepsOldest(data) ==
  IF Len(data) > STORE_LIMIT THEN SubSeq(data, 1, STORE_LIMIT) ELSE data

\* if (ingestedData.length > 1000) ingestedData = ingestedData.slice(-1000)
KeepLast(data) ==
  IF Len(data) > STORE_LIMIT
    THEN SubSeq(data, Len(data) - STORE_LIMIT + 1, Len(data))
    ELSE data

\* POST /ingest of the store.  A payload is the JSON object of a body: keys is
\* the number of its keys and size the length of its JSON text.
Payloads == {[keys |-> 0, size |-> 2], [keys |-> 1, size |-> 7]}

IngestDataUpTo(max) ==
  /\ \E payload \in Payloads :
       IF payload.keys = 0
         THEN /\ lastCall' = [op |-> "POST /ingest (store)", priority |-> "", ok |-> FALSE,
                              request |-> payload,
                              response |-> [code |-> 400, error |-> "Empty payload",
                                            id |-> Null, totalRecords |-> Null]]
              /\ UNCHANGED <<ingestedData, dataCounter>>
         ELSE LET id == dataCounter + 1
                  processedData == [id |-> id, timestamp |-> now, originalPayload |-> payload,
                                    processed |-> TRUE, size |-> payload.size]
              IN  /\ dataCounter < max
                  /\ dataCounter' = id
                  /\ ingestedData' = KeepLast(Append(ingestedData, processedData))
                  /\ lastCall' = [op |-> "POST /ingest (store)", priority |-> "", ok |-> TRUE,
                                  request |-> payload,
                                  response |-> [code |-> 201, error |-> "", id |-> id,
                                                totalRecords |-> Len(ingestedData')]]
  /\ UNCHANGED <<now, batchQueue, ingestions, batches, isProcessing, lastProcessTime,
                 processingTimeout, timers, running, stopCalls>>

\* A query parameter: given says whether the query has it, n is the integer
\* its text is parsed to.  parseInt(x) || d is d for a parameter left out
\* and for 0.
ParseIntOr(param, d) == IF ~param.given \/ param.n = 0 THEN d ELSE param.n

\* Array.prototype.slice(from, to): a negative index counts from the end.
SliceIndex(i, len) == IF i < 0 THEN (IF len + i < 0 THEN 0 ELSE len + i) ELSE Min({i, len})

JsSlice(arr, from, to) ==
  SubSeq(arr, SliceIndex(from, Len(arr)) + 1, SliceIndex(to, Len(arr)))

Reverse(arr) == [k \in 1..Len(arr) |-> arr[Len(arr) + 1 - k]]

NoParam == [given |-> FALSE, n |-> 0]

Param(n) == [given |-> TRUE, n |-> n]

\* GET /data
DataResponse(query) ==
  IF query.id.given
    THEN LET found == {k \in 1..Len(ingestedData) : ingestedData[k].id = query.id.n}
         IN  IF found = {}
               THEN [code |-> 404, data |-> <<>>, limit |-> Null, offset |-> Null,
                     total |-> Null, hasMore |-> FALSE]
               ELSE [code |-> 200, data |-> <<ingestedData[Min(found)]>>, limit |-> Null,
                     offset |-> Null, total |-> Null, hasMore |-> FALSE]
    ELSE LET limitNum == Min({ParseIntOr(query.limit, PAGE_DEFAULT), PAGE_MAX})
             offsetNum == ParseIntOr(query.offset, 0)
         IN  [code |-> 200,
              data |-> JsSlice(Reverse(ingestedData), offsetNum, offsetNum + limitNum),
              limit |-> limitNum, offset |-> offsetNum, total |-> Len(ingestedData),
              hasMore |-> offsetNum + limitNum < Len(ingestedData)]

\* The queries tried: limit and offset left out, zero, negative, and at and
\* around the page limits; id left out or given.
LimitParams == {NoParam} \cup {Param(n) : n \in {-1, 0, 1, PAGE_MAX, PAGE_MAX + 1}}

OffsetParams == {NoParam} \cup {Param(n) : n \in {-1, 0, 1, PAGE_MAX}}

DataQueries ==
  {[limit |-> l, offset |-> o, id |-> NoParam] : l \in LimitParams, o \in OffsetParams}
  \cup {[limit |-> NoParam, offset |-> NoParam, id |-> Param(n)] : n \in {1, PAGE_MAX}}

GetData ==
  /\ \E query \in DataQueries :
       lastCall' = [op |-> "GET /data", priority |-> "", ok |-> DataResponse(query).code = 200,
                    request |-> query, response |-> DataResponse(query)]
  /\ UNCHANGED <<ingestedData, dataCounter, now, batchQueue, ingestions, batches, isProcessing,
                 lastProcessTime, processingTimeout, timers, running, stopCalls>>

\* The store filled past its limit.
IngestData == IngestDataUpTo(MaxPosts)

SpecStore == Init /\ [][IngestData]_vars

\* The store queried at every size up to MaxQueried.
IngestQueried == IngestDataUpTo(MaxQueried)

NextData == IngestQueried \/ GetData

SpecData == Init /\ [][NextData]_vars

\* The program under the scheduling of the event loop: time passes, a timer
\* whose deadline has come fires, and a simulated API call whose delay has
\* passed resolves.
Fairness ==
  /\ WF_vars(Advance)
  /\ WF_vars(TimerFires)
  /\ WF_vars(LostTimerFires)
  /\ WF_vars(ApiCallResolves)

SpecLive == Spec /\ Fairness

\* Mutant of StatusResponse: the format of the parameter is not tested.
StatusResponse_NoFormatCheck(req) ==
  LET status == getIngestionStatus(req.key)
  IN  IF ~status.found
        THEN [code |-> 404, error |-> "Ingestion not found", body |-> status]
        ELSE [code |-> 200, error |-> "", body |-> status]

\* GET /status/:ingestion_id.  A request parameter is a string: uuid says
\* whether it has the form the route tests for, key which ingestion it names
\* (0: none).  Every identifier createIngestion returns has that form.
StatusRequests ==
  {[uuid |-> FALSE, key |-> 0]} \cup {[uuid |-> TRUE, key |-> k] : k \in 0..MaxIngestions}

StatusResponse(req) ==
  IF ~req.uuid
    THEN [code |-> 400, error |-> "Invalid ingestion_id", body |-> [found |-> FALSE]]
    ELSE LET status == getIngestionStatus(req.key)
         IN  IF ~status.found
               THEN [code |-> 404, error |-> "Ingestion not found", body |-> status]
               ELSE [code |-> 200, error |-> "", body |-> status]

StatusRoute ==
  /\ \E req \in StatusRequests :
       /\ req.key <= Len(ingestions)
       /\ lastCall' = [op |-> "GET /status", priority |-> "", ok |-> req.uuid,
                       request |-> req, response |-> StatusResponse(req)]
  /\ UNCHANGED <<ingestedData, dataCounter, now, batchQueue, ingestions, batches, isProcessing, lastProcessTime,
                 processingTimeout, timers, running, stopCalls>>

NextStatus == Next \/ StatusRoute

SpecStatus == Init /\ [][NextStatus]_vars

\* The program with every start() and stop() call logged.  MaxStops bounds the
\* stop() calls on a running scheduler.
LoggedStart ==
  /\ startCall
  /\ lastCall' = [op |-> "start", priority |-> "", ok |-> ~isProcessing]
  /\ UNCHANGED <<ingestedData, dataCounter, now, ingestions, lastProcessTime, timers, stopCalls>>

LoggedStop ==
  /\ stopCalls < MaxStops \/ ~isProcessing
  /\ stopCalls' = IF isProcessing THEN stopCalls + 1 ELSE stopCalls
  /\ stopCall
  /\ lastCall' = [op |-> "stop", priority |-> "", ok |-> isProcessing]
  /\ UNCHANGED <<ingestedData, dataCounter, now, batchQueue, ingestions, batches, lastProcessTime, timers, running>>

NextLifecycle ==
  \/ Submit
  \/ LoggedStart
  \/ LoggedStop
  \/ TimerFires
  \/ LostTimerFires
  \/ ApiCallResolves
  \/ Advance

SpecLifecycle == Init /\ [][NextLifecycle]_vars

\* The program followed until its work is done: the clock goes on past
\* MaxTime while a batch is under execution or waits on a running scheduler,
\* up to the time every batch of a run is through by.
Busy == running # {} \/ (isProcessing /\ batchQueue # <<>>)

BusyEnd ==
  MaxTime + IDLE_RECHECK
    + MaxIngestions * ((MaxIds + MAX_BATCH_SIZE - 1) \div MAX_BATCH_SIZE)
        * (RATE_LIMIT_INTERVAL + MAX_BATCH_SIZE * DELAY_BASE)

AdvanceBusy ==
  Elapse(IF Busy THEN BusyEnd
         ELSE IF ingestions = <<>> THEN TimeStep ELSE MaxTime)

LiveFairness ==
  /\ WF_vars(AdvanceBusy)
  /\ WF_vars(TimerFires)
  /\ WF_vars(LostTimerFires)
  /\ WF_vars(ApiCallResolves)

\* The scheduler as the constructor leaves it, never stopped; start() is
\* called on it as at server start-up.
NextRun ==
  \/ Submit
  \/ LoggedStart
  \/ TimerFires
  \/ ApiCallResolves
  \/ AdvanceBusy

SpecRun == Init /\ [][NextRun]_vars /\ LiveFairness

\* The scheduler stopped and started again.
NextResume ==
  \/ Submit
  \/ start
  \/ stop
  \/ TimerFires
  \/ LostTimerFires
  \/ ApiCallResolves
  \/ AdvanceBusy

SpecResume == Init /\ [][NextResume]_vars /\ LiveFairness

\* ================================================================== claims
Level(b) == PRIORITY_LEVELS[batches[b].priority]

Started(b) == batches[b].started_at # Null

\* Batch b leaves the queue and begins execution in this step.
Dequeued(b) == batches[b].status = "yet_to_start" /\ batches'[b].status = "triggered"

BatchIds == 1..Len(batches)

\* C1: at most one batch is triggered at any time, so getActiveBatches() is at
\* most 1, and the execution windows of two completed batches do not overlap.
\* Violated: stop() then start() while a batch executes dequeues a second one.
C1_SingleExecutionSlot ==
  /\ getActiveBatches <= 1
  /\ \A a, b \in BatchIds :
       (a # b /\ batches[a].status = "completed" /\ batches[b].status = "completed")
         => \/ batches[a].completed_at <= batches[b].started_at
            \/ batches[b].completed_at <= batches[a].started_at

\* C2: whenever a batch is dequeued, its priority is at least the priority of
\* every batch still waiting in the queue.
C2_DequeueHighestPriority ==
  [][\A b \in BatchIds :
       Dequeued(b) => \A k \in 1..Len(batchQueue') : Level(b) >= Level(batchQueue'[k])]_vars

\* A HIGH batch of a later ingestion has been dequeued while a batch of lower
\* priority, enqueued before it, is still waiting.
C2_Witness ==
  \E b, c \in BatchIds :
    /\ Started(b)
    /\ batches[c].status = "yet_to_start"
    /\ batches[b].priority = "HIGH" /\ batches[c].priority = "MEDIUM"
    /\ batches[c].ingestion_id < batches[b].ingestion_id
    /\ c \in Range(batchQueue)

C4_StartsOneIntervalApart ==
  \A a, b \in BatchIds :
    (a # b /\ Started(a) /\ Started(b) /\ batches[a].started_at <= batches[b].started_at)
      => batches[b].started_at - batches[a].started_at >= RATE_LIMIT_INTERVAL

\* The batch ids of getIngestionStatus(i) flattened in the order it lists them.
RECURSIVE Flatten(_)
Flatten(bl) == IF bl = <<>> THEN <<>> ELSE Head(bl).ids \o Flatten(Tail(bl))

\* C5: n >= 1 ids are split into ceil(n/3) batches, all of 3 ids but the last,
\* which has the n - 3*(ceil(n/3)-1) ids left (1 to 3), and the batches listed
\* by getIngestionStatus concatenate to the original id list.
C5_SplitPreservesIds ==
  \A i \in 1..Len(ingestions) :
    LET ids == ingestions[i].original_ids
        n == Len(ids)
        bl == getIngestionStatus(i).batches
        m == Len(bl)
    IN  n >= 1 =>
          /\ m = (n + 2) \div 3
          /\ \A k \in 1..(m - 1) : Len(bl[k].ids) = 3
          /\ Len(bl[m].ids) = n - 3 * (m - 1)
          /\ Len(bl[m].ids) \in 1..3
          /\ Flatten(bl) = ids

\* An id list with a repeated id, longer than one batch and no multiple of 3,
\* has been split.
C5_Witness ==
  \E i \in 1..Len(ingestions) :
    LET ids == ingestions[i].original_ids
    IN  /\ Len(ids) > 3 /\ Len(ids) % 3 # 0
        /\ \E j, k \in 1..Len(ids) : j # k /\ ids[j] = ids[k]
        /\ Len(ingestions[i].batch_ids) > 1

\* The statuses the batches of ingestion i have now.
StatusSet(i) == {batches[ingestions[i].batch_ids[k]].status : k \in 1..Len(ingestions[i].batch_ids)}

C7_TriggeredMeansExecuting ==
  \A i \in 1..Len(ingestions) :
    getIngestionStatus(i).status = "triggered" => "triggered" \in StatusSet(i)

\* C8: a batch status only moves yet_to_start -> triggered -> completed or
\* failed; no batch goes back, and none is triggered a second time.
C8_StatusMonotonic ==
  [][\A b \in BatchIds :
       \/ batches'[b].status = batches[b].status
       \/ batches[b].status = "yet_to_start" /\ batches'[b].status = "triggered"
       \/ batches[b].status = "triggered" /\ batches'[b].status \in {"completed", "failed"}]_vars

\* One batch has completed and another has failed.
C8_Witness ==
  \E b, c \in BatchIds : batches[b].status = "completed" /\ batches[c].status = "failed"

\* C9: right after createIngestion, before any other step, the new ingestion
\* and each of its batches are reported yet_to_start.
C9_FreshIngestionYetToStart ==
  [][\A i \in 1..MaxIngestions :
       (Len(ingestions) < i /\ Len(ingestions') = i) =>
         /\ getIngestionStatus(i)'.status = "yet_to_start"
         /\ \A k \in 1..Len(getIngestionStatus(i)'.batches) :
              getIngestionStatus(i)'.batches[k].status = "yet_to_start"]_vars

\* An ingestion of two batches was created while a batch of another ingestion
\* was executing, and nothing has been dequeued since.
C9_Witness ==
  \E i \in 1..Len(ingestions) :
    /\ i = Len(ingestions)
    /\ Len(ingestions[i].batch_ids) = 2
    /\ StatusSet(i) = {"yet_to_start"}
    /\ \E b \in BatchIds :
         /\ batches[b].status = "triggered"
         /\ batches[b].started_at < ingestions[i].created_at
         /\ now = ingestions[i].created_at

\* C10: createIngestion with a priority outside HIGH, MEDIUM, LOW fails and
\* leaves queue, batches and ingestions as they were.  Violated: 'constructor'
\* names an inherited property of PRIORITY_LEVELS and passes the check.
C10_InvalidPriorityRejected ==
  [][(lastCall'.op = "createIngestion"
        /\ lastCall'.priority \notin (DOMAIN PRIORITY_LEVELS \cup {"undefined"}))
       => (~lastCall'.ok /\ UNCHANGED <<batchQueue, batches, ingestions>>)]_vars

\* The state of the scheduler and its stores, the log of calls apart.
program == <<now, batchQueue, ingestions, batches, isProcessing, lastProcessTime,
             processingTimeout, timers, running>>

\* C11: a status query for a well-formed identifier createIngestion never
\* returned is answered 404 'Ingestion not found', a malformed identifier 400,
\* a returned identifier 200 with its status, and no query changes the queue,
\* the batches, the ingestions or the scheduler.
C11_StatusQueryReadOnly ==
  [][(lastCall'.op = "GET /status" /\ lastCall' # lastCall) =>
       LET req == lastCall'.request
           res == lastCall'.response
       IN  /\ UNCHANGED program
           /\ ~req.uuid => (res.code = 400 /\ ~res.body.found)
           /\ (req.uuid /\ req.key \notin 1..Len(ingestions)) =>
                (res.code = 404 /\ res.error = "Ingestion not found" /\ ~res.body.found)
           /\ (req.uuid /\ req.key \in 1..Len(ingestions)) =>
                (res.code = 200 /\ res.body.found /\ res.body.ingestion_id = req.key)]_vars

\* An identifier never returned was queried while a batch of an existing
\* ingestion was executing.
C11_Witness ==
  /\ lastCall.op = "GET /status"
  /\ lastCall.request.uuid /\ lastCall.response.code = 404
  /\ ingestions # <<>> /\ running # {} /\ batchQueue # <<>>

\* C12: while the scheduler is stopped no batch leaves the queue or becomes
\* triggered, batches submitted meanwhile are yet_to_start, and stop() itself
\* leaves the queue and every batch as they were.
C12_StoppedDequeuesNothing ==
  [][/\ (~isProcessing /\ ~isProcessing') =>
          /\ \A k \in 1..Len(batchQueue) : batchQueue[k] \in Range(batchQueue')
          /\ \A b \in 1..Len(batches') :
               batches'[b].status = "yet_to_start"
                 <=> (b > Len(batches) \/ batches[b].status = "yet_to_start")
     /\ (isProcessing /\ ~isProcessing') => UNCHANGED <<batchQueue, batches>>]_vars

\* The scheduler was stopped during an execution; the wakeup armed at its end
\* has fired, and a batch submitted after that end is still waiting.
C12_Witness ==
  /\ ~isProcessing
  /\ processingTimeout = FiredTimer
  /\ \E b, c \in BatchIds :
       /\ batches[b].status = "completed"
       /\ batches[c].status = "yet_to_start" /\ c \in Range(batchQueue)
       /\ batches[c].created_at > batches[b].completed_at
       /\ now >= batches[b].completed_at + RATE_LIMIT_INTERVAL

\* The most batches a run creates.
MaxBatches == MaxIngestions * ((MaxIds + MAX_BATCH_SIZE - 1) \div MAX_BATCH_SIZE)

\* The status of batch b, "none" before it is created.
StatusOf(b) == IF b \in BatchIds THEN batches[b].status ELSE "none"

\* C13: a batch that is triggered when the scheduler is stopped still reaches
\* completed or failed.
C13_StoppedBatchFinishes ==
  \A b \in 1..MaxBatches :
    (StatusOf(b) = "triggered" /\ ~isProcessing) ~> (StatusOf(b) \in {"completed", "failed"})

\* A batch of three ids completed while the scheduler was stopped: the wakeup
\* armed at its end is pending on a stopped scheduler.
C13_Witness ==
  /\ ~isProcessing
  /\ \E b \in BatchIds :
       /\ batches[b].status = "completed" /\ Len(batches[b].results) = MAX_BATCH_SIZE
       /\ processingTimeout = Timer(batches[b].completed_at + RATE_LIMIT_INTERVAL)

\* C14: start() on a running scheduler and stop() on a stopped scheduler
\* change nothing.  Violated: the end of an execution under way at stop() arms
\* a wakeup on the stopped scheduler, and a second stop() cancels it.
C14_LifecycleIdempotent ==
  [][((isProcessing /\ LoggedStart) \/ (~isProcessing /\ LoggedStop)) => UNCHANGED program]_vars

\* C15: createIngestion leaves every existing batch as it was, and no batch
\* submitted after the start of a batch (created_at later than its started_at)
\* is itself triggered before that batch is completed or failed.  Violated through C1: stop() then start() during
\* an execution dequeues the batch submitted meanwhile.
C15_SubmissionNeverPreempts ==
  [][/\ Len(ingestions') > Len(ingestions) => \A b \in BatchIds : batches'[b] = batches[b]
     /\ \A c \in BatchIds :
          Dequeued(c) =>
            \A b \in BatchIds :
              ~(batches[b].status = "triggered"
                  /\ batches[b].started_at < batches[c].created_at)]_vars

\* Batch b fails in this step.
Fails(b) == batches[b].status = "triggered" /\ batches'[b].status = "failed"

\* C16: a step in which a batch fails records an error message on it, leaves
\* every other batch, the queue, the ingestions and isProcessing as they were
\* and arms the next wakeup RATE_LIMIT_INTERVAL later; after a failure a batch
\* is dequeued no sooner than RATE_LIMIT_INTERVAL after it.
C16_FailureContained ==
  [][/\ \A b \in BatchIds :
          Fails(b) =>
            /\ batches'[b].error # ""
            /\ \A c \in BatchIds : c # b => batches'[c] = batches[c]
            /\ \A i \in 1..Len(ingestions) :
                 i # batches[b].ingestion_id => getIngestionStatus(i)' = getIngestionStatus(i)
            /\ UNCHANGED <<batchQueue, ingestions, isProcessing>>
            /\ processingTimeout' = Timer(now + RATE_LIMIT_INTERVAL)
     /\ \A c \in BatchIds :
          Dequeued(c) => (lastProcessTime = 0 \/ now - lastProcessTime >= RATE_LIMIT_INTERVAL)]_vars

\* After a batch failed, the batch that waited behind it was dequeued one
\* interval later and has completed; the scheduler was never stopped.
C16_Witness ==
  /\ stopCalls = 0 /\ isProcessing
  /\ \E b, c \in BatchIds :
       /\ batches[b].status = "failed" /\ batches[b].error # ""
       /\ batches[c].status = "completed"
       /\ batches[c].created_at < batches[b].started_at
       /\ batches[c].started_at >= batches[b].started_at + RATE_LIMIT_INTERVAL

\* C17: a batch that fails after some of its ids were processed keeps the
\* results of those ids.  Violated: the results are local to processBatch
\* and stored on success only.
C17_FailedKeepsPartialResults ==
  [][\A r \in running : Fails(r.batch) => batches'[r.batch].results = r.results]_vars

\* The statuses getIngestionStatus reports, of ingestions and of batches.
Reported ==
  UNION {{getIngestionStatus(i).status} \cup
           {getIngestionStatus(i).batches[k].status : k \in 1..Len(getIngestionStatus(i).batches)}
         : i \in 1..Len(ingestions)}

\* C18: every status getIngestionStatus reports, of an ingestion or of a
\* batch, is yet_to_start, triggered or completed.
C18_ThreeStatusesReported == Reported \subseteq {"yet_to_start", "triggered", "completed"}

\* One ingestion is reported completed, another triggered with one batch
\* triggered and one yet_to_start.
C18_Witness ==
  \E i, j \in 1..Len(ingestions) :
    /\ getIngestionStatus(i).status = "completed"
    /\ getIngestionStatus(j).status = "triggered"
    /\ StatusSet(j) = {"triggered", "yet_to_start"}

\* What getIngestionStatus(i) lists: whether the ingestion is found and, per
\* batch in order, its identifier, ids and owner.
Layout(i) ==
  LET st == getIngestionStatus(i)
  IN  IF ~st.found THEN <<FALSE, <<>>>>
      ELSE <<TRUE, [k \in 1..Len(st.batches) |->
                      <<st.batches[k].batch_id, st.batches[k].ids, st.batches[k].ingestion_id>>]>>

\* What is stored for ingestion i: per batch in order, its identifier, its ids
\* and its owner.
StoredLayout(i) ==
  <<TRUE, [k \in 1..Len(ingestions[i].batch_ids) |->
             <<ingestions[i].batch_ids[k],
               batches[ingestions[i].batch_ids[k]].ids,
               batches[ingestions[i].batch_ids[k]].ingestion_id>>]>>

\* C19: getIngestionStatus finds every ingestion created and lists its stored
\* batches in their stored order with their ids, and no step removes an
\* ingestion or a batch or changes an ingestion's list of batches or a batch's
\* priority, owner, ids or creation time.
C19_LayoutNeverChanges ==
  /\ [](\A i \in 1..Len(ingestions) : Layout(i) = StoredLayout(i) /\ Layout(i)[2][1][3] = i)
  /\ [][/\ \A i \in 1..Len(ingestions) :
             /\ i \in 1..Len(ingestions')
             /\ ingestions'[i].batch_ids = ingestions[i].batch_ids
        /\ \A b \in BatchIds :
             /\ b \in 1..Len(batches')
             /\ batches'[b].priority = batches[b].priority
             /\ batches'[b].ingestion_id = batches[b].ingestion_id
             /\ batches'[b].ids = batches[b].ids
             /\ batches'[b].created_at = batches[b].created_at]_vars

\* An ingestion of two batches, one completed and one failed, is listed in
\* full after a stop(), a start() and a later submission.
C19_Witness ==
  /\ stopCalls > 0 /\ isProcessing /\ Len(ingestions) = 2
  /\ StatusSet(1) = {"completed", "failed"}
  /\ Len(getIngestionStatus(1).batches) = 2
  /\ ingestions[2].created_at > ingestions[1].created_at

\* The batches of a given status.
WithStatus(st) == {b \in BatchIds : batches[b].status = st}

\* C20: the queue holds the yet_to_start batches, each once, and no other;
\* getQueueSize() counts them and getActiveBatches() the triggered ones, which
\* are the batches under execution; every batch is yet_to_start, triggered,
\* completed or failed.
C20_QueueIsYetToStart ==
  /\ Range(batchQueue) = WithStatus("yet_to_start")
  /\ Cardinality(Range(batchQueue)) = Len(batchQueue)
  /\ getQueueSize = Cardinality(WithStatus("yet_to_start"))
  /\ getActiveBatches = Cardinality(WithStatus("triggered"))
  /\ {r.batch : r \in running} = WithStatus("triggered")
  /\ \A b \in BatchIds : batches[b].status \in {"yet_to_start", "triggered", "completed", "failed"}

\* Batches are waiting, under execution, completed and failed at once.
C20_Witness ==
  /\ WithStatus("yet_to_start") # {} /\ WithStatus("triggered") # {}
  /\ WithStatus("completed") # {} /\ WithStatus("failed") # {}

\* ------------------------------------------------------ the ingestion route
\* A body that fails validation as the contract words it.
InvalidBody(body) ==
  \/ body.ids.kind # "array"
  \/ body.ids.items = <<>>
  \/ \E k \in 1..Len(body.ids.items) :
       ~(body.ids.items[k].int /\ body.ids.items[k].n \in 1..1000000007)
  \/ body.priority # "undefined" /\ body.priority \notin {"HIGH", "MEDIUM", "LOW"}

\* The smallest index, from 0, of an invalid element of ids.
FirstInvalidIndex(body) ==
  Min({k - 1 : k \in {j \in 1..Len(body.ids.items) :
                        ~(body.ids.items[j].int /\ body.ids.items[j].n \in 1..1000000007)}})

\* C21: a POST /ingest that fails validation is answered 400, creates no
\* ingestion and enqueues no batch, and 'Invalid ID' names the smallest index
\* of an invalid element; every other request is answered 201 and creates
\* one ingestion.  Violated: a priority that is present and falsy (the empty
\* string, null) is taken for a missing one.
C21_ValidationContract ==
  [][(lastCall'.op = "POST /ingest" /\ lastCall' # lastCall) =>
       LET req == lastCall'.request
           res == lastCall'.response
       IN  /\ InvalidBody(req) =>
                (res.code = 400 /\ UNCHANGED <<batchQueue, batches, ingestions>>)
           /\ res.error = "Invalid ID" => res.index = FirstInvalidIndex(req)
           /\ ~InvalidBody(req) =>
                /\ res.code = 201
                /\ Len(ingestions') = Len(ingestions) + 1
                /\ res.ingestion_id = Len(ingestions')]_vars

\* The ingestion the last submission created, 0 when it created none.
Submitted == IF lastCall.ok /\ lastCall.op \in {"POST /ingest", "createIngestion"}
               THEN Len(ingestions) ELSE 0

\* C22: an ingestion submitted without a priority and each of its batches
\* carry priority MEDIUM and keep it; a batch of priority MEDIUM is dequeued
\* only when no HIGH batch is waiting, and a LOW batch only when no MEDIUM
\* batch is waiting.
C22_DefaultsToMedium ==
  /\ [](lastCall.priority = "undefined" /\ Submitted > 0 =>
          /\ ingestions[Submitted].priority = "MEDIUM"
          /\ \A k \in 1..Len(ingestions[Submitted].batch_ids) :
               batches[ingestions[Submitted].batch_ids[k]].priority = "MEDIUM")
  /\ [][/\ \A i \in 1..Len(ingestions) : ingestions'[i].priority = ingestions[i].priority
        /\ \A b \in BatchIds :
             /\ batches'[b].priority = batches[b].priority
             /\ (Dequeued(b) /\ batches[b].priority = "MEDIUM") =>
                  \A k \in 1..Len(batchQueue) : batches[batchQueue[k]].priority # "HIGH"
             /\ (Dequeued(b) /\ batches[b].priority = "LOW") =>
                  \A k \in 1..Len(batchQueue) : batches[batchQueue[k]].priority # "MEDIUM"]_vars

\* A request without priority was made while the second of two LOW batches
\* was waiting, and its batch is under execution before that batch.
C22_Witness ==
  /\ lastCall.op = "POST /ingest" /\ lastCall.priority = "undefined" /\ Submitted = 2
  /\ ingestions[1].priority = "LOW" /\ Len(ingestions[1].batch_ids) = 2
  /\ batches[ingestions[1].batch_ids[1]].status = "completed"
  /\ batches[ingestions[1].batch_ids[2]].status = "yet_to_start"
  /\ batches[ingestions[2].batch_ids[1]].status = "triggered"

\* The interval of the README's timeline an id is processed in, counted
\* from 0 at T0: [1,2,3] in T0-T5, [6,7,8] in T5-T10, [9,4,5] in T10-T15.
TimelineInterval(id) == IF id \in {1, 2, 3} THEN 0 ELSE IF id \in {6, 7, 8} THEN 1 ELSE 2

\* C23: in the example timeline every id is processed in the interval of
\* RATE_LIMIT_INTERVAL the README gives for it.  Violated: 9 and [4,5] are two
\* batches, and [4,5] is dequeued one interval after 9.
C23_ExampleTimeline ==
  \A b \in BatchIds :
    Started(b) =>
      \A k \in 1..Len(batches[b].ids) :
        (batches[b].started_at - ingestions[1].created_at) \div RATE_LIMIT_INTERVAL
          = TimelineInterval(batches[b].ids[k])

\* ------------------------------------------------------ the key-value store
\* C24: the store holds at most STORE_LIMIT records, which are the most
\* recently ingested ones in increasing id order; a successful POST /ingest
\* gives its record an id above every id given before and returns the number
\* of stored records as totalRecords.
C24_StoreKeepsLatest ==
  /\ [](/\ Len(ingestedData) = Min({dataCounter, STORE_LIMIT})
        /\ \A k \in 1..Len(ingestedData) :
             ingestedData[k].id = dataCounter - Len(ingestedData) + k)
  /\ [][(lastCall'.op = "POST /ingest (store)" /\ lastCall'.ok /\ lastCall' # lastCall) =>
          /\ lastCall'.response.id = dataCounter + 1
          /\ dataCounter' = dataCounter + 1
          /\ \A k \in 1..Len(ingestedData) : ingestedData[k].id < lastCall'.response.id
          /\ ingestedData'[Len(ingestedData')].id = lastCall'.response.id
          /\ lastCall'.response.totalRecords = Len(ingestedData')]_vars

\* Two records were evicted: the store holds the records 3 to 1002.
C24_Witness ==
  /\ lastCall.op = "POST /ingest (store)" /\ lastCall.ok
  /\ dataCounter = STORE_LIMIT + 2
  /\ lastCall.response.totalRecords = STORE_LIMIT
  /\ ingestedData[1].id = 3 /\ ingestedData[STORE_LIMIT].id = dataCounter

\* C25: GET /data without id returns at most PAGE_MAX records for every
\* integer limit and offset, PAGE_DEFAULT at most when limit is left out,
\* most recent first, and hasMore says whether stored records older than the
\* last one returned remain.  Violated: a negative limit becomes a negative
\* end index of slice, which counts from the end of the store.
C25_PageAtMostHundred ==
  [][(lastCall'.op = "GET /data" /\ ~lastCall'.request.id.given /\ lastCall' # lastCall) =>
       LET req == lastCall'.request
           res == lastCall'.response
           n == Len(res.data)
       IN  /\ n <= PAGE_MAX
           /\ ~req.limit.given => (res.limit = PAGE_DEFAULT /\ n <= PAGE_DEFAULT)
           /\ \A k \in 1..(n - 1) : res.data[k].id > res.data[k + 1].id
           /\ \A k \in 1..n : \E j \in 1..Len(ingestedData) : ingestedData[j] = res.data[k]
           /\ res.hasMore <=> (n > 0 /\ res.data[n].id > ingestedData[1].id)]_vars

\* ------------------------------------------------- the pace of the scheduler
\* Batch b has ended, completed or failed.
Ended(b) == batches[b].status \in {"completed", "failed"}

\* The end of batch b for the scheduler; a failed batch has no completed_at.
Ends(b) == batches[b].status = "triggered" /\ batches'[b].status \in {"completed", "failed"}

\* Batch c begins execution next after batch a.
Consecutive(a, c) ==
  /\ Started(a) /\ Started(c) /\ a # c
  /\ batches[a].started_at <= batches[c].started_at
  /\ \A x \in BatchIds \ {a, c} :
       Started(x) => \/ batches[x].started_at <= batches[a].started_at
                     \/ batches[x].started_at >= batches[c].started_at

\* The rate-limit test of processNextBatch.
RateLimited == now - lastProcessTime < RATE_LIMIT_INTERVAL /\ lastProcessTime > 0

\* One run of processNextBatch() on a running scheduler.
Tick == (TimerFires \/ LostTimerFires \/ start) /\ isProcessing'

\* C26 as stated: while the scheduler stays running and a batch is waiting,
\* consecutive batches begin execution RATE_LIMIT_INTERVAL apart, and
\* lastProcessTime is the time of the last dequeue.  Violated: the interval
\* is counted from the end of the execution.
C26_IntervalBetweenStarts ==
  stopCalls = 0 =>
    /\ \A a, c \in BatchIds :
         (Consecutive(a, c) /\ batches[c].created_at <= batches[a].started_at)
           => batches[c].started_at = batches[a].started_at + RATE_LIMIT_INTERVAL
    /\ lastProcessTime \in {0} \cup {batches[b].started_at : b \in BatchIds}

\* C26, amended: while the scheduler stays running and a batch is waiting,
\* the next batch begins execution RATE_LIMIT_INTERVAL after the end of the
\* execution before it, that is RATE_LIMIT_INTERVAL plus the execution time
\* after its start, and lastProcessTime is the time of the last completion.
C26_IntervalAfterCompletion ==
  stopCalls = 0 =>
    /\ \A a, c \in BatchIds :
         (Consecutive(a, c) /\ batches[c].created_at <= batches[a].started_at)
           => /\ batches[a].status = "completed"
              /\ batches[c].started_at =
                   batches[a].started_at
                     + (batches[a].completed_at - batches[a].started_at)
                     + RATE_LIMIT_INTERVAL
    /\ \A a \in BatchIds :
         batches[a].status = "completed" => lastProcessTime >= batches[a].completed_at
    /\ lastProcessTime \in {0} \cup {batches[b].completed_at : b \in WithStatus("completed")}

\* A batch of three ids took 300 ms, and the batch waiting since before its
\* start began execution 5300 ms after it.
C26_Witness ==
  /\ stopCalls = 0
  /\ \E a, c \in BatchIds :
       /\ Consecutive(a, c) /\ batches[c].created_at <= batches[a].started_at
       /\ batches[a].completed_at = batches[a].started_at + 3 * DELAY_BASE
       /\ batches[c].started_at = batches[a].started_at + 3 * DELAY_BASE + RATE_LIMIT_INTERVAL

\* C27: no batch is dequeued while another is under execution; the end of an
\* execution sets lastProcessTime to that time and arms the next tick
\* RATE_LIMIT_INTERVAL later; with no stop(), a batch begins execution at
\* least RATE_LIMIT_INTERVAL after the end of the one before; no dequeue
\* happens less than RATE_LIMIT_INTERVAL after a non-zero lastProcessTime.
\* Violated: stop() then start() during an execution dequeues a second batch.
C27_DequeueAfterReturn ==
  /\ [][\A b \in BatchIds :
          /\ Dequeued(b) => (running = {} /\ ~RateLimited)
          /\ Ends(b) => /\ lastProcessTime' = now
                        /\ processingTimeout' = Timer(now + RATE_LIMIT_INTERVAL)]_vars
  /\ [](stopCalls = 0 =>
         \A a, c \in BatchIds :
           Consecutive(a, c) =>
             /\ batches[a].status = "completed"
             /\ batches[c].started_at >= batches[a].completed_at + RATE_LIMIT_INTERVAL)

\* C28: a tick that finds the queue empty leaves lastProcessTime, the queue
\* and every batch as they were and arms a tick IDLE_RECHECK later; so on a
\* running scheduler with no execution under way a batch waits no longer than
\* IDLE_RECHECK after its submission or, if that is later, than
\* RATE_LIMIT_INTERVAL after lastProcessTime.
C28_IdleRecheck ==
  /\ [][(Tick /\ batchQueue = <<>> /\ ~RateLimited) =>
          /\ UNCHANGED <<lastProcessTime, batchQueue, batches, running>>
          /\ processingTimeout' = Timer(now + IDLE_RECHECK)]_vars
  /\ [](\A b \in BatchIds :
          (isProcessing /\ running = {} /\ batches[b].status = "yet_to_start") =>
            \/ now <= batches[b].created_at + IDLE_RECHECK
            \/ now <= lastProcessTime + RATE_LIMIT_INTERVAL)

\* A tick found the queue empty at 1000 ms, and the batch submitted after it
\* began execution at the re-check; the batch submitted during that execution
\* has waited longer than IDLE_RECHECK, until RATE_LIMIT_INTERVAL has passed
\* since lastProcessTime.
C28_Witness ==
  /\ stopCalls = 0 /\ isProcessing /\ running = {}
  /\ \E a, c \in BatchIds :
       /\ batches[a].created_at = IDLE_RECHECK
       /\ batches[a].started_at = 2 * IDLE_RECHECK
       /\ batches[a].status = "completed"
       /\ batches[c].created_at > batches[a].started_at
       /\ batches[c].status = "yet_to_start"
       /\ now > batches[c].created_at + IDLE_RECHECK
       /\ now > batches[a].completed_at + IDLE_RECHECK

\* C29: a stopped scheduler has no pending wakeup.  Violated: the end of an
\* execution under way at stop() arms a wakeup on the stopped scheduler.
C29_StoppedHasNoWakeup ==
  ~isProcessing => (processingTimeout.state # "pending" /\ timers = <<>>)

\* The invocations of processNextBatch() under way and the pending wakeups.
LoopCount ==
  Cardinality(running) + Len(timers)
    + (IF processingTimeout.state = "pending" THEN 1 ELSE 0)

\* C30: pending wakeups and invocations of processNextBatch() under way are
\* at most one together, and no wakeup is pending that processingTimeout does
\* not refer to.  Violated: stop() then start() during an execution starts a
\* second invocation, and the handle of a pending wakeup is overwritten.
C30_SingleControlLoop ==
  /\ LoopCount <= 1
  /\ timers = <<>>

\* ------------------------------------------------------- order and progress
\* The batches of ingestion i, in the order of its batch list.
BatchList(i) == ingestions[i].batch_ids

\* The overall status reported for ingestion i, "none" before it is created.
OverallOf(i) == IF i \in 1..Len(ingestions) THEN getIngestionStatus(i).status ELSE "none"

\* C31: while the scheduler is never stopped, every batch submitted reaches
\* completed and every ingestion is reported completed in the end; a batch
\* dequeued while an earlier batch waits has a strictly higher priority.
C31_EveryBatchCompletes ==
  /\ \A b \in 1..MaxBatches :
       (StatusOf(b) = "yet_to_start") ~> (StatusOf(b) = "completed")
  /\ \A i \in 1..MaxIngestions :
       (OverallOf(i) # "none") ~> (OverallOf(i) = "completed")
  /\ [][\A b, c \in BatchIds :
          (Dequeued(c) /\ batches'[b].status = "yet_to_start"
             /\ batches[b].created_at < batches[c].created_at)
            => Level(c) > Level(b)]_vars

\* Two ingestions of two batches each are reported completed, the scheduler
\* never stopped, and a batch of the second one was dequeued before a batch
\* of the first.
C31_Witness ==
  /\ stopCalls = 0 /\ Len(ingestions) = 2
  /\ OverallOf(1) = "completed" /\ OverallOf(2) = "completed"
  /\ Len(BatchList(1)) = 2 /\ Len(BatchList(2)) = 2
  /\ batches[BatchList(2)[1]].started_at < batches[BatchList(1)[2]].started_at

\* C32: once start() has been called after stop() and the scheduler stays
\* running, the queue is worked off: a state follows in which no batch waits
\* or is under execution and every batch, so every batch that waited, is
\* completed.
C32_StartResumes ==
  (stopCalls = MaxStops /\ isProcessing)
    ~> (batchQueue = <<>> /\ running = {} /\ WithStatus("completed") = BatchIds)

\* The first batch a run executed had waited longer than an idle scheduler
\* lets a batch wait: the scheduler was stopped meanwhile and started again;
\* the batch and one submitted later are completed.
C32_Witness ==
  /\ stopCalls = MaxStops /\ isProcessing
  /\ \E b, c \in BatchIds :
       /\ batches[b].status = "completed" /\ batches[c].status = "completed"
       /\ batches[b].started_at > batches[b].created_at + IDLE_RECHECK
       /\ batches[c].created_at > batches[b].created_at
       /\ \A x \in BatchIds : Started(x) => batches[x].started_at >= batches[b].started_at

\* C33: the batches of an ingestion leave the queue in the order of its batch
\* list: those no longer yet_to_start are a prefix of the list, and the ids
\* of the list in this order are the original ids.
C33_IngestionOrderKept ==
  \A i \in 1..Len(ingestions) :
    /\ \A j, k \in 1..Len(BatchList(i)) :
         (j < k /\ batches[BatchList(i)[k]].status # "yet_to_start")
           => /\ batches[BatchList(i)[j]].status # "yet_to_start"
              /\ batches[BatchList(i)[j]].started_at <= batches[BatchList(i)[k]].started_at
    /\ Flatten([k \in 1..Len(BatchList(i)) |-> batches[BatchList(i)[k]]])
         = ingestions[i].original_ids

\* Between the submission of a two-batch ingestion and the dequeue of its
\* second batch, an ingestion of the same priority was submitted, and the
\* first batch of that one still waits behind.
C33_Witness ==
  /\ Len(ingestions) = 2
  /\ ingestions[1].priority = ingestions[2].priority
  /\ Len(BatchList(1)) = 2
  /\ batches[BatchList(1)[2]].status = "triggered"
  /\ ingestions[2].created_at > ingestions[1].created_at
  /\ ingestions[2].created_at < batches[BatchList(1)[2]].started_at
  /\ batches[BatchList(2)[1]].status = "yet_to_start"

\* The place of an overall status in yet_to_start -> triggered -> completed.
StatusRank(st) == IF st = "yet_to_start" THEN 0 ELSE IF st = "triggered" THEN 1 ELSE 2

\* C34: the overall status getIngestionStatus reports for an ingestion never
\* moves backwards in yet_to_start -> triggered -> completed, and it is
\* triggered for an ingestion with a failed batch.
C34_OverallStatusMonotonic ==
  /\ [](\A i \in 1..Len(ingestions) :
          "failed" \in StatusSet(i) => getIngestionStatus(i).status = "triggered")
  /\ [][batches' # batches =>
          \A i \in 1..Len(ingestions) :
            StatusRank(getIngestionStatus(i).status')
              >= StatusRank(getIngestionStatus(i).status)]_vars

\* An ingestion of two batches is reported completed, and another one with a
\* completed and a failed batch triggered.
C34_Witness ==
  /\ Len(ingestions) = 2
  /\ Len(BatchList(1)) = 2 /\ getIngestionStatus(1).status = "completed"
  /\ StatusSet(2) = {"completed", "failed"} /\ getIngestionStatus(2).status = "triggered"

\* C35: the constructor leaves the scheduler running with one idle wakeup
\* pending; as long as stop() is not called it stays running with one wakeup
\* pending or one invocation of processNextBatch() under way, start() changes
\* nothing, and the batches submitted are dequeued and executed.
C35_ConstructedRunning ==
  /\ [](/\ (now = 0 /\ lastCall.op = "none") =>
             (processingTimeout = Timer(IDLE_RECHECK) /\ running = {} /\ batches = <<>>)
        /\ isProcessing /\ LoopCount = 1)
  /\ [][LoggedStart => UNCHANGED program]_vars
  /\ (batchQueue # <<>>) ~> (batchQueue = <<>> /\ running = {} /\ WithStatus("completed") = BatchIds)

\* start() was called on the running scheduler; the batches submitted have
\* been executed, and the idle wakeup is pending.
C35_Witness ==
  /\ lastCall.op = "start" /\ ~lastCall.ok
  /\ Len(ingestions) = MaxIngestions /\ WithStatus("completed") = BatchIds
  /\ batchQueue = <<>> /\ running = {} /\ processingTimeout.state = "pending"

\* C36: a completed batch holds one result per id, in the order of its ids,
\* and both timestamps with started_at <= completed_at; a yet_to_start batch
\* holds no result and no timestamp; the results of an execution under way
\* are those of the first ids of the batch.
C36_ResultsInIdOrder ==
  /\ \A b \in BatchIds :
       /\ batches[b].status = "completed" =>
            /\ Len(batches[b].results) = Len(batches[b].ids)
            /\ \A k \in 1..Len(batches[b].ids) : batches[b].results[k].id = batches[b].ids[k]
            /\ batches[b].started_at # Null /\ batches[b].completed_at # Null
            /\ batches[b].started_at <= batches[b].completed_at
       /\ batches[b].status = "yet_to_start" =>
            /\ batches[b].results = <<>>
            /\ batches[b].started_at = Null /\ batches[b].completed_at = Null
  /\ \A r \in running :
       /\ Len(r.results) < Len(batches[r.batch].ids)
       /\ \A k \in 1..Len(r.results) : r.results[k].id = batches[r.batch].ids[k]

\* A batch of three ids is completed, a second one has two results of its
\* three, and a third one waits.
C36_Witness ==
  \E a, b, c \in BatchIds :
    /\ batches[a].status = "completed" /\ Len(batches[a].results) = 3
    /\ \E r \in running : r.batch = b /\ Len(r.results) = 2 /\ Len(batches[b].ids) = 3
    /\ batches[c].status = "yet_to_start"

====
